---- MODULE Spec2Model ----
(***************************************************************************)
(* Transaction enrichment, reward matching and savings calculation of the  *)
(* EffortlessSmartRewards backend (backend/app/services.py), the batch     *)
(* flow that drives them (backend/seed_data.py) and the notification       *)
(* decision (backend/app/ai_service.py).                                   *)
(*                                                                         *)
(* Python values are encoded as follows.                                   *)
(*   - str            a TLA+ string                                        *)
(*   - Optional[x]    None is <<>>, a present value v is <<v>>             *)
(*   - datetime       an integer (a day number); where the code reads the  *)
(*                    tzinfo of a datetime column, the row has a Boolean   *)
(*                    field <column>_aware (offset-aware or naive)         *)
(*   - dict           a function from the keys that are present            *)
(*   - an exception   the name of its class, in the outcome of the call    *)
(*   - Decimal money  an integer number of cents (value_amount_usd,        *)
(*                    max_savings_amount, fixed_amount_value); a computed  *)
(*                    savings is an integer number of 1/Scale cents, so    *)
(*                    that amount * percentage / 100 is exact              *)
(*   - percentage     an integer number of hundredths of a percent         *)
(* SQLAlchemy filter clauses are modelled by the SQL they denote: a        *)
(* comparison with NULL selects no row, ilike is the LIKE pattern match    *)
(* (with its wildcards) on the lower-cased operands, and a clause object   *)
(* that was built counts as true where the Python code tests it.           *)
(***************************************************************************)
EXTENDS Integers, Sequences, FiniteSets, TLC

VARIABLES
    rewards,           \* the rewards table, in storage order
    user,              \* the User row
    user_preferences,  \* the UserPreference row of the user, or None
    transaction,       \* the Transaction object being processed
    entry,             \* the Transaction object as it was constructed
    op,                \* the operation that ran last
    ret,               \* what it returned
    enrich_calls,      \* how many times enrich_transaction ran on the transaction
    batch,             \* the transactions a batch run is to create, in order
    pc,                \* the position in batch of the next one
    session,           \* the Transaction objects added to the db session, uncommitted
    committed,         \* the rows of the transactions table
    status             \* of the batch run: "idle", "running", "done" or "raised"

\* the state of a batch run
batch_vars == <<batch, pc, session, committed, status>>

vars == <<rewards, user, user_preferences, transaction, entry, op, ret, enrich_calls, batch_vars>>

----------------------------------------------------------------------------
(* Optional values and Python truthiness *)

None == <<>>

Some(v) == <<v>>

\* truth value of an Optional[str]: None and "" are false
TruthyStr(x) == x # None /\ x[1] # ""

\* truth value of an Optional[Decimal] / Optional[datetime]: None and 0 are false
TruthyNum(x) == x # None /\ x[1] # 0

\* `x or ''`
OrEmpty(x) == IF TruthyStr(x) THEN x[1] ELSE ""

----------------------------------------------------------------------------
(* str methods *)

UpperAlpha == "ABCDEFGHIJKLMNOPQRSTUVWXYZ"

LowerAlpha == "abcdefghijklmnopqrstuvwxyz"

CharAt(s, i) == SubSeq(s, i, i)

\* upper-case letter -> lower-case letter
LowerOf ==
    [c \in {CharAt(UpperAlpha, i) : i \in 1..Len(UpperAlpha)} |->
        CharAt(LowerAlpha, CHOOSE i \in 1..Len(UpperAlpha) : CharAt(UpperAlpha, i) = c)]

\* lower-case letter -> upper-case letter
UpperOf ==
    [c \in {CharAt(LowerAlpha, i) : i \in 1..Len(LowerAlpha)} |->
        CharAt(UpperAlpha, CHOOSE i \in 1..Len(LowerAlpha) : CharAt(LowerAlpha, i) = c)]

LowerChar(c) == IF c \in DOMAIN LowerOf THEN LowerOf[c] ELSE c

UpperChar(c) == IF c \in DOMAIN UpperOf THEN UpperOf[c] ELSE c

IsAlpha(c) == c \in DOMAIN LowerOf \/ c \in DOMAIN UpperOf

\* str.lower()
RECURSIVE StrLower(_)
StrLower(s) == IF s = "" THEN "" ELSE LowerChar(Head(s)) \o StrLower(Tail(s))

\* `p in s`
StrIn(p, s) == \E i \in 1..(Len(s) - Len(p) + 1) : SubSeq(s, i, i + Len(p) - 1) = p

\* str.split(): the maximal runs of non-whitespace characters
RECURSIVE SplitFrom(_, _)
SplitFrom(s, word) ==
    IF s = "" THEN (IF word = "" THEN <<>> ELSE <<word>>)
    ELSE IF Head(s) = " "
         THEN (IF word = "" THEN <<>> ELSE <<word>>) \o SplitFrom(Tail(s), "")
         ELSE SplitFrom(Tail(s), word \o Head(s))

StrSplit(s) == SplitFrom(s, "")

\* str.capitalize(): first character upper-cased, the rest lower-cased
StrCapitalize(s) == IF s = "" THEN "" ELSE UpperChar(Head(s)) \o StrLower(Tail(s))

\* str.title(): a letter that follows a non-letter is upper-cased, any other lower-cased
RECURSIVE TitleFrom(_, _)
TitleFrom(s, prevAlpha) ==
    IF s = "" THEN ""
    ELSE (IF prevAlpha THEN LowerChar(Head(s)) ELSE UpperChar(Head(s)))
         \o TitleFrom(Tail(s), IsAlpha(Head(s)))

StrTitle(s) == TitleFrom(s, FALSE)

----------------------------------------------------------------------------
(* TransactionEnrichmentService *)

\* (pattern, normalized) in declaration order
MERCHANT_PATTERNS ==
    << <<"starbucks", "Starbucks">>,
       <<"sbux", "Starbucks">>,
       <<"coffee", "Coffee Shop">>,
       <<"mcdonald", "McDonald's">>,
       <<"mcd", "McDonald's">>,
       <<"uber", "Uber">>,
       <<"lyft", "Lyft">>,
       <<"amazon", "Amazon">>,
       <<"whole foods", "Whole Foods">>,
       <<"target", "Target">>,
       <<"walmart", "Walmart">>,
       <<"restaurant", "Restaurant">>,
       <<"dining", "Restaurant">>,
       <<"hotel", "Hotel">>,
       <<"airline", "Airline">>,
       <<"gas", "Gas Station">>,
       <<"shell", "Shell">>,
       <<"exxon", "Exxon">>,
       <<"grocery", "Grocery Store">> >>

\* (category, patterns) in declaration order
CATEGORY_PATTERNS ==
    << <<"dining", <<"restaurant", "cafe", "coffee", "starbucks", "mcdonald", "dining", "food", "pizza", "burger">> >>,
       <<"travel", <<"hotel", "airline", "uber", "lyft", "taxi", "airport", "travel", "booking">> >>,
       <<"groceries", <<"grocery", "whole foods", "safeway", "kroger", "walmart", "target", "supermarket">> >>,
       <<"entertainment", <<"movie", "theater", "cinema", "netflix", "spotify", "entertainment", "concert">> >>,
       <<"shopping", <<"amazon", "retail", "store", "shopping", "mall">> >>,
       <<"gas", <<"gas", "shell", "exxon", "chevron", "bp", "fuel">> >>,
       <<"utilities", <<"electric", "water", "gas bill", "utility", "internet", "phone">> >> >>

cities == <<"new york", "nyc", "san francisco", "sf", "los angeles", "la", "chicago", "boston", "miami">>

\* f"{description} {memo or ''}".lower()
Combined2(description, memo) == StrLower(description \o " " \o OrEmpty(memo))

\* f"{description} {memo or ''} {merchant or ''}".lower()
Combined3(description, memo, merchant) ==
    StrLower(description \o " " \o OrEmpty(memo) \o " " \o OrEmpty(merchant))

\* MerchantScan without the early return: the last pattern that occurs wins
MerchantScan_LastWins(combined, i) ==
    IF \E k \in i..Len(MERCHANT_PATTERNS) : StrIn(MERCHANT_PATTERNS[k][1], combined)
    THEN Some(MERCHANT_PATTERNS[
             CHOOSE k \in i..Len(MERCHANT_PATTERNS) :
                /\ StrIn(MERCHANT_PATTERNS[k][1], combined)
                /\ \A j \in (k + 1)..Len(MERCHANT_PATTERNS) :
                      ~StrIn(MERCHANT_PATTERNS[j][1], combined)][2])
    ELSE None

\* the for loop over MERCHANT_PATTERNS.items(), from entry i on
RECURSIVE MerchantScan(_, _)
MerchantScan(combined, i) ==
    IF i > Len(MERCHANT_PATTERNS) THEN None
    ELSE IF StrIn(MERCHANT_PATTERNS[i][1], combined) THEN Some(MERCHANT_PATTERNS[i][2])
    ELSE MerchantScan(combined, i + 1)

\* the fallback: words = combined.split(); words[0].capitalize(), or None
FirstWord(words) == IF words # <<>> THEN Some(StrCapitalize(words[1])) ELSE None

\* NormalizeCombined without the first-word fallback
NormalizeCombined_NoFallback(combined) == MerchantScan(combined, 1)

NormalizeCombined(combined) ==
    IF MerchantScan(combined, 1) # None THEN MerchantScan(combined, 1)
    ELSE FirstWord(StrSplit(combined))

normalize_merchant(description, memo) == NormalizeCombined(Combined2(description, memo))

\* the inner for loop over one category's patterns, from pattern j on
RECURSIVE PatternScan(_, _, _)
PatternScan(patterns, combined, j) ==
    IF j > Len(patterns) THEN FALSE
    ELSE IF StrIn(patterns[j], combined) THEN TRUE
    ELSE PatternScan(patterns, combined, j + 1)

\* the outer for loop over CATEGORY_PATTERNS.items(), from entry i on
RECURSIVE CategoryScan(_, _)
CategoryScan(combined, i) ==
    IF i > Len(CATEGORY_PATTERNS) THEN None
    ELSE IF PatternScan(CATEGORY_PATTERNS[i][2], combined, 1) THEN Some(CATEGORY_PATTERNS[i][1])
    ELSE CategoryScan(combined, i + 1)

\* infer_category that leaves the merchant out of the text
infer_category_WithoutMerchant(description, memo, merchant) ==
    CategoryScan(Combined2(description, memo), 1)

infer_category(description, memo, merchant) ==
    CategoryScan(Combined3(description, memo, merchant), 1)

\* the for loop over cities, from entry i on
RECURSIVE CityScan(_, _)
CityScan(combined, i) ==
    IF i > Len(cities) THEN None
    ELSE IF StrIn(cities[i], combined) THEN Some(StrTitle(cities[i]))
    ELSE CityScan(combined, i + 1)

infer_location(description, memo) == CityScan(Combined2(description, memo), 1)

\* if not transaction.merchant_normalized: ...
EnrichMerchant(t) ==
    IF ~TruthyStr(t.merchant_normalized)
    THEN [t EXCEPT !.merchant_normalized = normalize_merchant(t.description, t.memo)]
    ELSE t

\* if not transaction.category: ...
EnrichCategory(t) ==
    IF ~TruthyStr(t.category)
    THEN [t EXCEPT !.category = infer_category(t.description, t.memo, t.merchant_normalized)]
    ELSE t

\* if not transaction.location_inferred: ...
EnrichLocation(t) ==
    IF ~TruthyStr(t.location_inferred)
    THEN [t EXCEPT !.location_inferred = infer_location(t.description, t.memo)]
    ELSE t

\* enrich_transaction with the category block ahead of the merchant block
enrich_transaction_CategoryFirst(t) == EnrichLocation(EnrichMerchant(EnrichCategory(t)))

\* the three blocks, in order
enrich_transaction(t) == EnrichLocation(EnrichCategory(EnrichMerchant(t)))

----------------------------------------------------------------------------
(* SQL operators used by the reward query *)

\* s LIKE p: % matches any run of characters, _ matches any one character
RECURSIVE Like(_, _)
Like(s, p) ==
    IF p = "" THEN s = ""
    ELSE IF Head(p) = "%" THEN Like(s, Tail(p)) \/ (s # "" /\ Like(Tail(s), p))
    ELSE s # "" /\ (Head(p) = "_" \/ Head(p) = Head(s)) /\ Like(Tail(s), Tail(p))

\* column.ilike(pattern): NULL matches nothing
ilike(column, pattern) == column # None /\ Like(StrLower(column[1]), StrLower(pattern))

----------------------------------------------------------------------------
(* RewardMatchingService *)

\* StartFilter with < for <=
StartFilter_Strict(r, t) == t.transaction_at # None /\ r.start_date < t.transaction_at[1]

\* Reward.start_date <= transaction.transaction_at
StartFilter(r, t) == t.transaction_at # None /\ r.start_date <= t.transaction_at[1]

\* or_(Reward.end_date.is_(None), Reward.end_date >= transaction.transaction_at),
\* added only `if transaction.transaction_at:` (a datetime is always true)
EndFilter(r, t) ==
    t.transaction_at # None => (r.end_date = None \/ r.end_date[1] >= t.transaction_at[1])

\* merchant_match: False, or Reward.merchant_name.ilike(f"%{merchant_normalized}%")
MerchantMatch(r, t) ==
    TruthyStr(t.merchant_normalized)
    /\ ilike(Some(r.merchant_name), "%" \o t.merchant_normalized[1] \o "%")

\* category_match: False, or Reward.category == transaction.category
CategoryMatch(r, t) == TruthyStr(t.category) /\ r.category = t.category

\* the user_geo of find_matching_rewards
MatchingUserGeo(u, prefs) ==
    IF prefs # None /\ TruthyStr(prefs[1].priceless_geo_location)
    THEN prefs[1].priceless_geo_location
    ELSE IF TruthyStr(u.primary_geo_location) THEN u.primary_geo_location
    ELSE None

\* the geo filter, added only `if user_geo:`
GeoFilter(r, user_geo) ==
    TruthyStr(user_geo) =>
        \/ r.geo_scope = "global"
        \/ ilike(r.geo_city, "%" \o user_geo[1] \o "%")
        \/ ilike(r.geo_country, "%" \o user_geo[1] \o "%")

\* AutoApplicable without the opt-in test
AutoApplicable_IgnoringOptIn(r) == r.is_auto_applicable

\* r.is_auto_applicable and not r.requires_user_opt_in
AutoApplicable(r) == r.is_auto_applicable /\ ~r.requires_user_opt_in

\* the query of the three filters on the enriched transaction t, then query.all()
MatchingQuery(table, t, user_geo) ==
    LET Keep(r) == /\ StartFilter(r, t)
                   /\ EndFilter(r, t)
                   /\ (MerchantMatch(r, t) \/ CategoryMatch(r, t))
                   /\ GeoFilter(r, user_geo)
    \* query.all(): the rows of the table that pass the filters, in storage order
    IN  SelectSeq(table, Keep)

\* AutoApplyCut without the test of the preference
AutoApplyCut_Always(prefs, matching_rewards) ==
    IF SelectSeq(matching_rewards, AutoApplicable) # <<>>
    THEN SubSeq(SelectSeq(matching_rewards, AutoApplicable), 1, 1)
    ELSE matching_rewards

\* the `if user_preferences and user_preferences.auto_apply_rewards_enabled:` block
AutoApplyCut(prefs, matching_rewards) ==
    IF /\ prefs # None
       /\ prefs[1].auto_apply_rewards_enabled
       /\ SelectSeq(matching_rewards, AutoApplicable) # <<>>
    THEN SubSeq(SelectSeq(matching_rewards, AutoApplicable), 1, 1)
    ELSE matching_rewards

\* find_matching_rewards from the enriched transaction t on
MatchEnriched(t, user_geo, prefs, table) ==
    IF ~(TruthyStr(t.merchant_normalized) \/ TruthyStr(t.category))
    THEN [transaction |-> t, rewards |-> <<>>]
    ELSE [transaction |-> t, rewards |-> AutoApplyCut(prefs, MatchingQuery(table, t, user_geo))]

\* returns the (enriched) transaction and the list of rewards
find_matching_rewards(t0, u, prefs, table) ==
    MatchEnriched(enrich_transaction(t0), MatchingUserGeo(u, prefs), prefs, table)

\* a computed savings counts 1/Scale cents
Scale == 100 * 100

Abs(n) == IF n < 0 THEN -n ELSE n

Min(a, b) == IF a <= b THEN a ELSE b

\* the savings, in 1/Scale cents
calculate_reward_savings(t, r) ==
    LET transaction_amount == Abs(t.value_amount_usd)
    IN  IF r.reward_type = "percentage_cashback" /\ TruthyNum(r.percentage_value)
        THEN LET savings == transaction_amount * r.percentage_value[1]
             IN  IF TruthyNum(r.max_savings_amount)
                 THEN Min(savings, r.max_savings_amount[1] * Scale)
                 ELSE savings
        ELSE IF r.reward_type = "fixed_amount" /\ TruthyNum(r.fixed_amount_value)
        THEN r.fixed_amount_value[1] * Scale
        ELSE 0

----------------------------------------------------------------------------
(* Rows and objects *)

\* the columns of models.Transaction that its constructor call leaves unset
TransactionDefaults ==
    [ merchant_normalized |-> None, category |-> None, location_inferred |-> None,
      matched_reward_id |-> None, reward_applied |-> FALSE,
      reward_savings_amount |-> None, notification_triggered |-> FALSE ]

\* models.Transaction(customer_id=..., ..., value_amount_usd=amount, user_id=...)
NewTransaction(description, memo, amount, at) ==
    [ customer_id |-> 1001, account_id |-> 2001, user_id |-> 1,
      posted_at |-> at, transaction_at |-> at,
      description |-> description, memo |-> memo, value_amount_usd |-> amount ]
    @@ TransactionDefaults

\* models.Reward(**reward_data): the four groups of columns of one row
NewReward(id, offer, window, geo, auto) ==
    [id |-> id] @@ offer @@ window @@ geo @@ auto

Offer(merchant_name, category, reward_type, percentage_value, fixed_amount_value, max_savings_amount) ==
    [ merchant_name |-> merchant_name, category |-> category, reward_type |-> reward_type,
      percentage_value |-> percentage_value, fixed_amount_value |-> fixed_amount_value,
      max_savings_amount |-> max_savings_amount ]

Window(start_date, end_date) == [start_date |-> start_date, end_date |-> end_date]

Geo(geo_scope, geo_city, geo_country) ==
    [geo_scope |-> geo_scope, geo_city |-> geo_city, geo_country |-> geo_country]

Auto(is_auto_applicable, requires_user_opt_in) ==
    [is_auto_applicable |-> is_auto_applicable, requires_user_opt_in |-> requires_user_opt_in]

NewUser(primary_geo_location) == [id |-> 1, primary_geo_location |-> primary_geo_location]

NewPreferences(priceless_geo_location, auto_apply_rewards_enabled) ==
    [ user_id |-> 1, notifications_enabled |-> TRUE, priceless_notifications_enabled |-> TRUE,
      priceless_geo_location |-> priceless_geo_location,
      auto_apply_rewards_enabled |-> auto_apply_rewards_enabled ]

----------------------------------------------------------------------------
(* Operations *)

\* no batch run is under way and the transactions table is empty
NoBatch ==
    /\ batch = <<>>
    /\ pc = 1
    /\ session = <<>>
    /\ committed = <<>>
    /\ status = "idle"

\* how often enrich_transaction is applied to one transaction
MaxEnrichCalls == 2

\* the readings of the clock: days 1..MaxNow
MaxNow == 4

NormalizeMerchant ==
    /\ op' = "normalize_merchant"
    /\ ret' = normalize_merchant(transaction.description, transaction.memo)
    /\ UNCHANGED <<rewards, user, user_preferences, transaction, entry, enrich_calls>>
    /\ UNCHANGED batch_vars

InferCategory ==
    /\ op' = "infer_category"
    /\ ret' = infer_category(transaction.description, transaction.memo,
                             transaction.merchant_normalized)
    /\ UNCHANGED <<rewards, user, user_preferences, transaction, entry, enrich_calls>>
    /\ UNCHANGED batch_vars

InferLocation ==
    /\ op' = "infer_location"
    /\ ret' = infer_location(transaction.description, transaction.memo)
    /\ UNCHANGED <<rewards, user, user_preferences, transaction, entry, enrich_calls>>
    /\ UNCHANGED batch_vars

EnrichTransaction ==
    /\ enrich_calls < MaxEnrichCalls
    /\ transaction' = enrich_transaction(transaction)
    /\ enrich_calls' = enrich_calls + 1
    /\ op' = "enrich_transaction"
    /\ ret' = transaction'
    /\ UNCHANGED <<rewards, user, user_preferences, entry>>
    /\ UNCHANGED batch_vars

FindMatchingRewards ==
    /\ enrich_calls < MaxEnrichCalls
    /\ \E found \in {find_matching_rewards(transaction, user, user_preferences, rewards)} :
          /\ transaction' = found.transaction
          /\ ret' = found.rewards
    /\ enrich_calls' = enrich_calls + 1
    /\ op' = "find_matching_rewards"
    /\ UNCHANGED <<rewards, user, user_preferences, entry>>
    /\ UNCHANGED batch_vars

CalculateRewardSavings ==
    /\ \E i \in DOMAIN rewards :
          ret' = [reward |-> rewards[i],
                  savings |-> calculate_reward_savings(transaction, rewards[i])]
    /\ op' = "calculate_reward_savings"
    /\ UNCHANGED <<rewards, user, user_preferences, transaction, entry, enrich_calls>>
    /\ UNCHANGED batch_vars

\* transaction.matched_reward_id = reward.id; transaction.reward_savings_amount = savings
RecordMatch(t, reward) ==
    [t EXCEPT !.matched_reward_id = Some(reward.id),
              !.reward_savings_amount = Some(calculate_reward_savings(t, reward))]

\* the `if preferences and preferences.auto_apply_rewards_enabled:` block; acted is
\* `random.random() < 0.3`
AutoApply(t, reward, prefs, acted) ==
    IF prefs # None /\ prefs[1].auto_apply_rewards_enabled
    THEN IF AutoApplicable(reward)
         THEN [t EXCEPT !.reward_applied = TRUE]
         ELSE IF acted
         THEN [t EXCEPT !.notification_triggered = TRUE, !.reward_applied = TRUE]
         ELSE t
    ELSE t

\* ApplyMatch with the notification branch taken outside `if matching_rewards:`
ApplyMatch_Unguarded(t, matching_rewards, prefs, acted) ==
    IF matching_rewards = <<>>
    THEN IF acted THEN [t EXCEPT !.notification_triggered = TRUE, !.reward_applied = TRUE] ELSE t
    ELSE AutoApply(RecordMatch(t, matching_rewards[1]), matching_rewards[1], prefs, acted)

\* the `if matching_rewards:` block of create_sample_transactions
ApplyMatch(t, matching_rewards, prefs, acted) ==
    IF matching_rewards = <<>> THEN t
    ELSE AutoApply(RecordMatch(t, matching_rewards[1]), matching_rewards[1], prefs, acted)

\* one pass of the innermost loop of create_sample_transactions on the
\* transaction it has just constructed
CreateSampleTransaction ==
    /\ op = "init"
    /\ transaction = NewTransaction(transaction.description, transaction.memo,
                                    transaction.value_amount_usd, transaction.transaction_at)
    /\ \E acted \in BOOLEAN, enriched \in {enrich_transaction(transaction)} :
          \E found \in {find_matching_rewards(enriched, user, user_preferences, rewards)} :
             /\ transaction' = ApplyMatch(found.transaction, found.rewards, user_preferences, acted)
             /\ ret' = found.rewards
    /\ enrich_calls' = enrich_calls + 2
    /\ op' = "create_sample_transactions"
    /\ UNCHANGED <<rewards, user, user_preferences, entry>>
    /\ UNCHANGED batch_vars

----------------------------------------------------------------------------
(* Enrichment of one transaction: SpecEnrich *)

\* (description, memo)
EnrichTexts ==
    { <<"STARBUCKS STORE #12345", Some("Purchase at Starbucks Coffee")>>,
      <<"SBUX #67890", None>>,
      <<"Morning Coffee at Starbucks", Some("")>>,
      <<"SHELL GAS 42", None>>,
      <<"WHOLE", Some("Foods Market")>>,
      <<"Hotel Boston", None>>,
      <<"PAYROLL DEPOSIT", Some("Salary payment")>>,
      <<"xyz", None>>,
      <<"", None>>,
      <<"  ", Some(" ")>> }

MerchantPresets == {None, Some(""), Some("Acme")}

CategoryPresets == {None, Some("travel")}

LocationPresets == {None, Some("Miami")}

InitEnrich ==
    /\ rewards = <<>>
    /\ user = NewUser(None)
    /\ user_preferences = None
    /\ \E text \in EnrichTexts, m \in MerchantPresets, c \in CategoryPresets, l \in LocationPresets :
          transaction = [NewTransaction(text[1], text[2], -550, Some(2))
                            EXCEPT !.merchant_normalized = m, !.category = c,
                                   !.location_inferred = l]
    /\ entry = transaction
    /\ op = "init"
    /\ ret = None
    /\ enrich_calls = 0
    /\ NoBatch

NextEnrich == NormalizeMerchant \/ InferCategory \/ InferLocation \/ EnrichTransaction

SpecEnrich == InitEnrich /\ [][NextEnrich]_vars

----------------------------------------------------------------------------
(* Savings of one reward on one transaction: SpecSavings *)

RewardTypes == {"percentage_cashback", "fixed_amount", "experience"}

Percentages == {None, Some(0), Some(500), Some(1000)}

FixedAmounts == {None, Some(0), Some(1000)}

Caps == {None, Some(0), Some(5000)}

Amounts == {-200000, -550, 0, 550, 200000}

InitSavings ==
    /\ \E ty \in RewardTypes, p \in Percentages, f \in FixedAmounts, cap \in Caps :
          rewards = << NewReward(1, Offer("Starbucks", Some("dining"), ty, p, f, cap),
                                 Window(1, None), Geo("global", None, None),
                                 Auto(TRUE, FALSE)) >>
    /\ user = NewUser(None)
    /\ user_preferences = None
    /\ \E a \in Amounts : transaction = NewTransaction("STARBUCKS", None, a, Some(2))
    /\ entry = transaction
    /\ op = "init"
    /\ ret = None
    /\ enrich_calls = 0
    /\ NoBatch

NextSavings == CalculateRewardSavings

SpecSavings == InitSavings /\ [][NextSavings]_vars

----------------------------------------------------------------------------
(* Matching of one transaction against the rewards table: Spec *)

Offers ==
    << Offer("Starbucks Coffee", Some("dining"), "percentage_cashback", Some(500), None, Some(5000)),
       Offer("SQ CAFE", None, "fixed_amount", None, Some(1000), None),
       Offer("Uber", None, "experience", None, Some(15000), None) >>

Windows == << Window(2, Some(2)), Window(2, None) >>

Geos ==
    << Geo("global", None, None),
       Geo("city", Some("New York"), None),
       Geo("country", None, Some("USA")) >>

Autos == << Auto(TRUE, FALSE), Auto(FALSE, TRUE), Auto(TRUE, TRUE) >>

\* every combination of an offer, a window, a geo scope and the auto-apply flags
RewardRows ==
    [ k \in 1..(Len(Offers) * Len(Windows) * Len(Geos) * Len(Autos)) |->
        LET n == k - 1
            a == n % Len(Autos)
            g == (n \div Len(Autos)) % Len(Geos)
            w == (n \div (Len(Autos) * Len(Geos))) % Len(Windows)
            o == n \div (Len(Autos) * Len(Geos) * Len(Windows))
        IN  NewReward(k, Offers[o + 1], Windows[w + 1], Geos[g + 1], Autos[a + 1]) ]

Reverse(s) == [i \in 1..Len(s) |-> s[Len(s) + 1 - i]]

\* the storage orders of the table
Tables == {RewardRows, Reverse(RewardRows)}

\* (description, memo, merchant_normalized, category) of the transaction on entry
MatchInputs ==
    { <<"STARBUCKS STORE #12345", Some("Purchase at Starbucks Coffee"), None, None>>,
      <<"SQ_CAFE 9", None, None, None>>,
      <<"UBER TRIP", Some("Ride share payment"), None, None>>,
      <<"xyz", None, None, None>>,
      <<"", None, None, None>>,
      <<"", None, Some("UBER"), None>>,
      <<"xyz", None, Some(""), None>>,
      <<" ", None, None, Some("dining")>> }

Times == {None, Some(1), Some(2), Some(3)}

MatchAmounts == {-550, -200000}

Users == {NewUser(None), NewUser(Some("usa"))}

Preferences ==
    {None} \cup
    { Some(NewPreferences(g, a)) :
        g \in {None, Some(""), Some("new york"), Some("NEW_YORK")}, a \in BOOLEAN }

Init ==
    /\ rewards \in Tables
    /\ user \in Users
    /\ user_preferences \in Preferences
    /\ \E in \in MatchInputs, at \in Times, a \in MatchAmounts :
          transaction = [NewTransaction(in[1], in[2], a, at)
                            EXCEPT !.merchant_normalized = in[3], !.category = in[4]]
    /\ entry = transaction
    /\ op = "init"
    /\ ret = None
    /\ enrich_calls = 0
    /\ NoBatch

Next == FindMatchingRewards \/ CreateSampleTransaction \/ EnrichTransaction

Spec == Init /\ [][Next]_vars

----------------------------------------------------------------------------
(* AiInsightsService.should_send_notification *)

\* truth value of an Optional[bool]: None and False are false
TruthyBool(x) == x # None /\ x[1]

\* d.get(key, default)
DictGet(d, key, default) == IF key \in DOMAIN d THEN d[key] ELSE default

\* the two toggles, with the test of notifications_enabled left out
NotificationsAllowed_PricelessOnly(prefs) ==
    TruthyBool(DictGet(prefs, "priceless_notifications_enabled", Some(TRUE)))

\* neither `if not user_preferences.get(..., True): return False` returns
NotificationsAllowed(prefs) ==
    /\ TruthyBool(DictGet(prefs, "priceless_notifications_enabled", Some(TRUE)))
    /\ TruthyBool(DictGet(prefs, "notifications_enabled", Some(TRUE)))

\* user_preferences.get("priceless_geo_location") or user.primary_geo_location
NotifyUserGeo(u, prefs) ==
    IF TruthyStr(DictGet(prefs, "priceless_geo_location", None))
    THEN DictGet(prefs, "priceless_geo_location", None)
    ELSE u.primary_geo_location

\* the geo-match block does not return False
NotifyGeoMatch(experience, user_geo) ==
    experience.geo_scope # "global" =>
        ~( \/ ~TruthyStr(user_geo)
           \/ /\ TruthyStr(experience.geo_city)
              /\ ~StrIn(StrLower(user_geo[1]), StrLower(experience.geo_city[1])) )

\* datetime.now(tz) takes the awareness of start_date, so start_date and now
\* always compare; end_date and now compare when end_date has that awareness too
EndComparable(experience) == experience.end_date_aware = experience.start_date_aware

\* NotStarted with >= for >
NotStarted_Inclusive(experience, now) == experience.start_date >= now

\* experience.start_date > now
NotStarted(experience, now) == experience.start_date > now

\* experience.end_date < now, for an end_date that compares with now
Ended(experience, now) == experience.end_date[1] < now

\* the outcome of a call: `return v`, or an exception of class cls (which
\* returns nothing: the returned field is then a filler)
Return(v) == [returned |-> v, raised |-> ""]

Raise(cls) == [returned |-> FALSE, raised |-> cls]

\* return True, return False, or the TypeError that Python raises when it
\* compares a naive with an aware datetime
should_send_notification(u, prefs, experience, now) ==
    IF ~NotificationsAllowed(prefs) THEN Return(FALSE)
    ELSE IF ~NotifyGeoMatch(experience, NotifyUserGeo(u, prefs)) THEN Return(FALSE)
    ELSE IF NotStarted(experience, now) THEN Return(FALSE)
    ELSE IF experience.end_date = None THEN Return(TRUE)
    ELSE IF ~EndComparable(experience) THEN Raise("TypeError")
    ELSE IF Ended(experience, now) THEN Return(FALSE)
    ELSE Return(TRUE)

\* one call; now is the reading of the clock that datetime.now() returns
ShouldSendNotification ==
    /\ \E i \in DOMAIN rewards, now \in 1..MaxNow :
          ret' = [experience |-> rewards[i], now |-> now,
                  sent |-> should_send_notification(user, user_preferences, rewards[i], now)]
    /\ op' = "should_send_notification"
    /\ UNCHANGED <<rewards, user, user_preferences, transaction, entry, enrich_calls>>
    /\ UNCHANGED batch_vars

----------------------------------------------------------------------------
(* The notification decision for one experience: SpecNotify *)

\* a dict with the key absent, or present with value v
DictEntry(key, v) == IF v = "absent" THEN <<>> ELSE key :> v

Toggles == {"absent", None, Some(FALSE), Some(TRUE)}

PreferenceDicts ==
    { DictEntry("notifications_enabled", n)
        @@ DictEntry("priceless_notifications_enabled", p)
        @@ DictEntry("priceless_geo_location", g) :
      n \in Toggles, p \in Toggles, g \in {"absent", Some(""), Some("new york")} }

ExperienceWindows == {Window(2, None), Window(2, Some(2)), Window(2, Some(3))}

\* start_date.tzinfo and end_date.tzinfo are set or None
Awareness(start_date_aware, end_date_aware) ==
    [start_date_aware |-> start_date_aware, end_date_aware |-> end_date_aware]

Experiences ==
    { NewReward(1, Offers[3], w, Geos[g], Autos[2]) @@ Awareness(sa, ea) :
        w \in ExperienceWindows, g \in DOMAIN Geos, sa \in BOOLEAN, ea \in BOOLEAN }

InitNotify ==
    /\ \E e \in Experiences : rewards = <<e>>
    /\ user \in {NewUser(None), NewUser(Some("USA"))}
    /\ user_preferences \in PreferenceDicts
    /\ transaction = NewTransaction("", None, 0, None)
    /\ entry = transaction
    /\ op = "init"
    /\ ret = None
    /\ enrich_calls = 0
    /\ NoBatch

NextNotify == ShouldSendNotification

SpecNotify == InitNotify /\ [][NextNotify]_vars

----------------------------------------------------------------------------
(* A batch run of create_sample_transactions under main: SpecBatch *)

\* how many transactions a batch creates
MaxBatch == 2

\* db.query(Reward) with the rewards of already matched transactions left out
CatalogSeen_Consumed(table, pending) ==
    LET Free(r) == \A k \in DOMAIN pending : pending[k].matched_reward_id # Some(r.id)
    IN  SelectSeq(table, Free)

\* what db.query(Reward) reads while the session holds pending Transaction
\* objects: the rewards table
CatalogSeen(table, pending) == table

\* models.Transaction(...) from a template; a missing amount is None
Construct(item) ==
    NewTransaction(item.description, item.memo,
                   IF item.amount = None THEN None ELSE item.amount[1], item.at)

\* one pass of the innermost loop. abs(None) in calculate_reward_savings raises
\* TypeError, which leaves create_sample_transactions before db.commit(); main
\* catches it, rolls the session back and raises it again
ProcessNext ==
    /\ status = "running"
    /\ pc <= Len(batch)
    /\ \E acted \in BOOLEAN, enriched \in {enrich_transaction(Construct(batch[pc]))} :
          \E found \in {find_matching_rewards(enriched, user, user_preferences,
                                              CatalogSeen(rewards, session))} :
             IF found.rewards # <<>> /\ batch[pc].amount = None
             THEN /\ transaction' = found.transaction
                  /\ ret' = Raise("TypeError")
                  /\ session' = <<>>
                  /\ status' = "raised"
                  /\ UNCHANGED <<pc, committed>>
             ELSE /\ transaction' = ApplyMatch(found.transaction, found.rewards,
                                               user_preferences, acted)
                  /\ ret' = found.rewards
                  /\ session' = Append(session, transaction')
                  /\ pc' = pc + 1
                  /\ UNCHANGED <<status, committed>>
    /\ entry' = Construct(batch[pc])
    /\ enrich_calls' = 2
    /\ op' = "create_sample_transactions"
    /\ UNCHANGED <<rewards, user, user_preferences, batch>>

\* db.commit() after the loops
Commit ==
    /\ status = "running"
    /\ pc > Len(batch)
    /\ committed' = committed \o session
    /\ session' = <<>>
    /\ status' = "done"
    /\ op' = "commit"
    /\ UNCHANGED <<rewards, user, user_preferences, transaction, entry, ret, enrich_calls,
                   batch, pc>>

\* (description, memo, amount, transaction_date) of a template
Template(description, memo, amount, at) ==
    [description |-> description, memo |-> memo, amount |-> amount, at |-> at]

BatchItems ==
    { Template("STARBUCKS STORE #12345", Some("Purchase at Starbucks Coffee"), Some(-550), Some(2)),
      Template("UBER TRIP", Some("Ride share payment"), Some(-200000), Some(2)),
      Template("xyz", None, Some(-550), Some(2)),
      Template("STARBUCKS STORE #12345", Some("Purchase at Starbucks Coffee"), None, Some(2)) }

Batches == UNION { [1..n -> BatchItems] : n \in 1..MaxBatch }

InitBatch ==
    /\ rewards \in Tables
    /\ user = NewUser(None)
    /\ user_preferences \in {None, Some(NewPreferences(None, FALSE)), Some(NewPreferences(None, TRUE))}
    /\ batch \in Batches
    /\ pc = 1
    /\ session = <<>>
    /\ committed = <<>>
    /\ status = "running"
    /\ transaction = Construct(batch[1])
    /\ entry = transaction
    /\ op = "init"
    /\ ret = None
    /\ enrich_calls = 0

NextBatch == ProcessNext \/ Commit

SpecBatch == InitBatch /\ [][NextBatch]_vars

----------------------------------------------------------------------------
(* AiInsightsService.generate_reward_recommendations and its caller *)

\* preferences_dict of the insights endpoint: {} without a preferences record
PreferencesDict(prefs) ==
    IF prefs = None THEN <<>>
    ELSE [ priceless_geo_location |-> prefs[1].priceless_geo_location,
           priceless_notifications_enabled |-> Some(prefs[1].priceless_notifications_enabled),
           auto_apply_rewards_enabled |-> Some(prefs[1].auto_apply_rewards_enabled) ]

\* RecommendUserGeo without `if not user_geo: user_geo = user.primary_geo_location`
RecommendUserGeo_NoFallback(u, prefs) ==
    IF DOMAIN prefs # {} THEN DictGet(prefs, "priceless_geo_location", None) ELSE None

\* the user_geo of generate_reward_recommendations; an empty dict is false
RecommendUserGeo(u, prefs) ==
    IF DOMAIN prefs # {} /\ TruthyStr(DictGet(prefs, "priceless_geo_location", None))
    THEN DictGet(prefs, "priceless_geo_location", None)
    ELSE u.primary_geo_location

\* the keys of merchant_counts
MerchantsSeen(recent_transactions) ==
    { recent_transactions[k].merchant_normalized[1] :
        k \in {j \in DOMAIN recent_transactions :
                  TruthyStr(recent_transactions[j].merchant_normalized)} }

\* the keys of category_counts
CategoriesSeen(recent_transactions) ==
    { recent_transactions[k].category[1] :
        k \in {j \in DOMAIN recent_transactions : TruthyStr(recent_transactions[j].category)} }

\* recommended_auto_apply, before the cut
RecommendedAutoApply(recent_transactions, available_rewards) ==
    LET Recommended(r) ==
            /\ AutoApplicable(r)
            /\ \/ r.category # None /\ r.category[1] \in CategoriesSeen(recent_transactions)
               \/ r.merchant_name \in MerchantsSeen(recent_transactions)
    IN  SelectSeq(available_rewards, Recommended)

\* recommended_priceless, before the cut
RecommendedPriceless(available_rewards, user_geo) ==
    LET Recommended(r) ==
            /\ r.reward_type = "experience"
            /\ \/ r.geo_scope = "global"
               \/ /\ TruthyStr(user_geo)
                  /\ TruthyStr(r.geo_city)
                  /\ StrIn(StrLower(user_geo[1]), StrLower(r.geo_city[1]))
    IN  SelectSeq(available_rewards, Recommended)

\* lst[:5]
Take5(lst) == SubSeq(lst, 1, Min(5, Len(lst)))

\* the rewards of lst whose id the model named
NamedBy(ids, lst) ==
    LET Named(r) == \E k \in DOMAIN ids : ids[k] = r.id
    IN  SelectSeq(lst, Named)

\* ReturnedLists that maps the ids the model returned to rewards
ReturnedLists_FromModel(ai, auto_apply, priceless) ==
    IF ai.kind = "ok"
    THEN [ recommended_auto_apply |-> Take5(NamedBy(ai.auto_apply_recommendations, auto_apply)),
           recommended_priceless |-> Take5(NamedBy(ai.priceless_recommendations, priceless)) ]
    ELSE [ recommended_auto_apply |-> Take5(auto_apply),
           recommended_priceless |-> Take5(priceless) ]

\* the try block, which returns when the completion call and json.loads succeed
\* and ai_data is a JSON object, and the except block, which returns otherwise
ReturnedLists(ai, auto_apply, priceless) ==
    IF ai.kind = "ok"
    THEN [ recommended_auto_apply |-> Take5(auto_apply),
           recommended_priceless |-> Take5(priceless) ]
    ELSE [ recommended_auto_apply |-> Take5(auto_apply),
           recommended_priceless |-> Take5(priceless) ]

\* ai is what the chat completion call does
generate_reward_recommendations(u, recent_transactions, available_rewards, prefs, ai) ==
    ReturnedLists(ai,
                  RecommendedAutoApply(recent_transactions, available_rewards),
                  RecommendedPriceless(available_rewards, RecommendUserGeo(u, prefs)))

\* the completion call: a JSON object with two lists of reward ids, a response
\* that json.loads rejects, a JSON value that is no object, or an exception
AiOutcome(kind, auto_apply_recommendations, priceless_recommendations) ==
    [ kind |-> kind,
      auto_apply_recommendations |-> auto_apply_recommendations,
      priceless_recommendations |-> priceless_recommendations ]

AiOutcomes ==
    { AiOutcome("ok", <<>>, <<>>),
      AiOutcome("ok", <<1>>, <<37>>),
      AiOutcome("ok", <<54, 999>>, <<1, 2>>),
      AiOutcome("invalid_json", <<>>, <<>>),
      AiOutcome("not_an_object", <<>>, <<>>),
      AiOutcome("raises", <<>>, <<>>) }

\* one call from the insights endpoint, on the user's transactions
GenerateRewardRecommendations ==
    /\ \E ai \in AiOutcomes :
          ret' = [ ai |-> ai,
                   recommendations |->
                       generate_reward_recommendations(user, committed, rewards,
                                                       PreferencesDict(user_preferences), ai) ]
    /\ op' = "generate_reward_recommendations"
    /\ UNCHANGED <<rewards, user, user_preferences, transaction, entry, enrich_calls>>
    /\ UNCHANGED batch_vars

\* the user geo as find_matching_rewards, should_send_notification and
\* generate_reward_recommendations each resolve it
ResolveUserGeo ==
    /\ ret' = [ matching |-> MatchingUserGeo(user, user_preferences),
                notification |-> NotifyUserGeo(user, PreferencesDict(user_preferences)),
                recommendation |-> RecommendUserGeo(user, PreferencesDict(user_preferences)) ]
    /\ op' = "resolve_user_geo"
    /\ UNCHANGED <<rewards, user, user_preferences, transaction, entry, enrich_calls>>
    /\ UNCHANGED batch_vars

----------------------------------------------------------------------------
(* Recommendations for one user: SpecRecommend *)

\* the user's recent transactions, as the batch flow leaves them
RecentTransactions ==
    LET starbucks == enrich_transaction(NewTransaction("STARBUCKS STORE #12345",
                         Some("Purchase at Starbucks Coffee"), -550, Some(2)))
        uber == enrich_transaction(NewTransaction("UBER TRIP", Some("Ride share payment"),
                                                  -200000, Some(2)))
        plain == NewTransaction("", None, -550, Some(2))
    IN  { <<>>, <<starbucks>>, <<uber, plain>>, <<starbucks, uber, starbucks>> }

GeoValues == {None, Some(""), Some("new york")}

InitRecommend ==
    /\ rewards \in Tables
    /\ user \in {NewUser(g) : g \in GeoValues \cup {Some("USA")}}
    /\ user_preferences \in {None} \cup {Some(NewPreferences(g, TRUE)) : g \in GeoValues}
    /\ committed \in RecentTransactions
    /\ batch = <<>>
    /\ pc = 1
    /\ session = <<>>
    /\ status = "idle"
    /\ transaction = NewTransaction("", None, 0, None)
    /\ entry = transaction
    /\ op = "init"
    /\ ret = None
    /\ enrich_calls = 0

NextRecommend == GenerateRewardRecommendations \/ ResolveUserGeo

SpecRecommend == InitRecommend /\ [][NextRecommend]_vars

----------------------------------------------------------------------------
(* The savings aggregates: get_dashboard_summary and SavingsCalculationService *)

\* timedelta(days=30), in days
WindowDays == 30

\* datetime.now() - timedelta(days=30)
CutoffDate(now) == now - WindowDays

\* transaction_at is set and >= cutoff_date (in SQL, NULL >= x selects no row)
Recent(t, cutoff_date) == t.transaction_at # None /\ t.transaction_at[1] >= cutoff_date

\* sum of the reward_savings_amount of the transactions of lst that have a
\* non-zero one
RECURSIVE SumSavings(_)
SumSavings(lst) ==
    IF lst = <<>> THEN 0
    ELSE (IF TruthyNum(Head(lst).reward_savings_amount)
          THEN Head(lst).reward_savings_amount[1] ELSE 0) + SumSavings(Tail(lst))

\* `t.category or "Other"`
CategoryOrOther(t) == IF TruthyStr(t.category) THEN t.category[1] ELSE "Other"

\* the dict that the loop over lst builds: category -> total_savings, count
CategoryTotals(lst) ==
    [ cat \in {CategoryOrOther(lst[k]) : k \in DOMAIN lst} |->
        LET InCategory(t) == CategoryOrOther(t) = cat
        IN  [ total_savings |-> SumSavings(SelectSeq(lst, InCategory)),
              count |-> Len(SelectSeq(lst, InCategory)) ] ]

\* membership in auto_apply_transactions of get_dashboard_summary
DashboardAutoApplied(t) ==
    t.reward_applied /\ ~t.notification_triggered /\ TruthyNum(t.reward_savings_amount)

\* membership in notification_transactions of get_dashboard_summary
DashboardNotified(t) == t.notification_triggered /\ TruthyNum(t.reward_savings_amount)

\* the three aggregates of get_dashboard_summary
get_dashboard_summary(transactions, now) ==
    LET IsRecent(t) == Recent(t, CutoffDate(now))
        Rewarded(t) == t.reward_applied /\ TruthyNum(t.reward_savings_amount)
        recent_transactions == SelectSeq(transactions, IsRecent)
    IN  [ saved_via_auto_apply |->
              SumSavings(SelectSeq(recent_transactions, DashboardAutoApplied)),
          saved_via_notifications |->
              SumSavings(SelectSeq(recent_transactions, DashboardNotified)),
          rewards_by_category |-> CategoryTotals(SelectSeq(recent_transactions, Rewarded)) ]

\* the filter of the auto_apply_transactions query of calculate_savings
ServiceAutoApplied(t, user_id, cutoff_date) ==
    /\ t.user_id = user_id
    /\ t.reward_applied = TRUE
    /\ t.notification_triggered = FALSE
    /\ t.reward_savings_amount # None
    /\ Recent(t, cutoff_date)

\* the filter of the notification_transactions query of calculate_savings
ServiceNotified(t, user_id, cutoff_date) ==
    /\ t.user_id = user_id
    /\ t.notification_triggered = TRUE
    /\ t.reward_savings_amount # None
    /\ Recent(t, cutoff_date)

\* SavingsCalculationService.calculate_savings
calculate_savings(user_id, table, now) ==
    LET AutoApplied(t) == ServiceAutoApplied(t, user_id, CutoffDate(now))
        Notified(t) == ServiceNotified(t, user_id, CutoffDate(now))
    IN  [ saved_via_auto_apply |-> SumSavings(SelectSeq(table, AutoApplied)),
          saved_via_notifications |-> SumSavings(SelectSeq(table, Notified)) ]

\* SavingsCalculationService.get_rewards_by_category
get_rewards_by_category(user_id, table, now) ==
    LET Rewarded(t) ==
            /\ t.user_id = user_id
            /\ t.reward_applied = TRUE
            /\ t.reward_savings_amount # None
            /\ Recent(t, CutoffDate(now))
    IN  CategoryTotals(SelectSeq(table, Rewarded))

\* one request to the dashboard endpoint; now is the reading of the clock
GetDashboardSummary ==
    /\ \E now \in 1..MaxNow :
          ret' = [now |-> now, summary |-> get_dashboard_summary(committed, now)]
    /\ op' = "get_dashboard_summary"
    /\ UNCHANGED <<rewards, user, user_preferences, transaction, entry, enrich_calls>>
    /\ UNCHANGED batch_vars

\* one call of calculate_savings and of get_rewards_by_category
CalculateSavings ==
    /\ \E now \in 1..MaxNow :
          ret' = [now |-> now,
                  savings |-> calculate_savings(user.id, committed, now),
                  rewards_by_category |-> get_rewards_by_category(user.id, committed, now)]
    /\ op' = "calculate_savings"
    /\ UNCHANGED <<rewards, user, user_preferences, transaction, entry, enrich_calls>>
    /\ UNCHANGED batch_vars

----------------------------------------------------------------------------
(* The aggregates over one user's transactions: SpecDashboard *)

\* how many transactions the user has
MaxHistory == 2

\* a stored transaction, as the batch flow or a later update leaves it
StoredTransaction(at, category, reward_applied, notification_triggered, reward_savings_amount) ==
    [ NewTransaction("", None, -550, at)
        EXCEPT !.category = category, !.reward_applied = reward_applied,
               !.notification_triggered = notification_triggered,
               !.matched_reward_id = Some(1),
               !.reward_savings_amount = reward_savings_amount ]

StoredTransactions ==
    { StoredTransaction(at, c, a, n, s) :
        at \in {None, Some(-27), Some(2)}, c \in {None, Some("dining")},
        a \in BOOLEAN, n \in BOOLEAN, s \in {None, Some(0), Some(275000)} }

Histories == UNION { [1..n -> StoredTransactions] : n \in 1..MaxHistory }

InitDashboard ==
    /\ rewards = <<>>
    /\ user = NewUser(None)
    /\ user_preferences = None
    /\ committed \in Histories
    /\ batch = <<>>
    /\ pc = 1
    /\ session = <<>>
    /\ status = "idle"
    /\ transaction = NewTransaction("", None, 0, None)
    /\ entry = transaction
    /\ op = "init"
    /\ ret = None
    /\ enrich_calls = 0

NextDashboard == GetDashboardSummary \/ CalculateSavings

SpecDashboard == InitDashboard /\ [][NextDashboard]_vars

----------------------------------------------------------------------------
(* Properties of the savings calculator (SpecSavings) *)

\* C1: for a reward with max_savings_amount set (a cap of 0 included) and any
\* transaction amount, calculate_reward_savings returns no more than the cap.
C1_NeverAboveCap ==
    (op = "calculate_reward_savings" /\ ret.reward.max_savings_amount # None)
        => ret.savings <= ret.reward.max_savings_amount[1] * Scale

----------------------------------------------------------------------------
(* Properties of matching (Spec) *)

Matched == op \in {"find_matching_rewards", "create_sample_transactions"}

InRet(r) == \E k \in DOMAIN ret : ret[k] = r

AutoApplyEnabled == user_preferences # None /\ user_preferences[1].auto_apply_rewards_enabled

\* the rewards that pass the temporal, relevance and geo filters of the query
Candidates == MatchingQuery(rewards, transaction, MatchingUserGeo(user, user_preferences))

IsAutoNoOptIn(r) == r.is_auto_applicable = TRUE /\ r.requires_user_opt_in = FALSE

AutoCandidates == SelectSeq(Candidates, IsAutoNoOptIn)

\* C2: with auto-apply enabled and a candidate that is auto-applicable without
\* opt-in, matching returns exactly the first such candidate in table order, and
\* the batch flow leaves the transaction matched to it, applied, not notified,
\* with the savings the calculator gives for it.
C2_AutoApplySelectsFirst ==
    (Matched /\ AutoApplyEnabled /\ AutoCandidates # <<>>) =>
        /\ ret = <<AutoCandidates[1]>>
        /\ op = "create_sample_transactions" =>
              /\ transaction.matched_reward_id = Some(AutoCandidates[1].id)
              /\ transaction.reward_applied = TRUE
              /\ transaction.notification_triggered = FALSE
              /\ transaction.reward_savings_amount =
                     Some(calculate_reward_savings(entry, AutoCandidates[1]))

\* the first candidate of the table is not auto-applicable without opt-in, and the
\* batch flow applied a later one
C2_Witness ==
    /\ op = "create_sample_transactions"
    /\ AutoApplyEnabled
    /\ Len(Candidates) >= 2
    /\ ~IsAutoNoOptIn(Candidates[1])
    /\ AutoCandidates # <<>>
    /\ transaction.reward_applied
    /\ transaction.matched_reward_id = Some(AutoCandidates[1].id)

UserGeoAbsent == ~TruthyStr(MatchingUserGeo(user, user_preferences))

\* C3: with no resolved user geo, find_matching_rewards returns no reward whose
\* geo_scope is city or country.
C3_NoGeoNoScopedReward ==
    (Matched /\ UserGeoAbsent) => \A k \in DOMAIN ret : ret[k].geo_scope = "global"

\* start_date <= t and (end_date is absent or end_date >= t)
ActiveAt(r, at) == at # None /\ r.start_date <= at[1] /\ (r.end_date = None \/ r.end_date[1] >= at[1])

RelevantAndInGeo(r) ==
    /\ MerchantMatch(r, transaction) \/ CategoryMatch(r, transaction)
    /\ GeoFilter(r, MatchingUserGeo(user, user_preferences))

\* C4: a returned reward is active at the transaction's timestamp, bounds
\* included: a reward that passes the other filters is returned when
\* start_date <= t <= end_date (or end_date is absent) and never otherwise.
C4_TemporalFilter ==
    Matched =>
        \A i \in DOMAIN rewards :
            /\ InRet(rewards[i]) => ActiveAt(rewards[i], transaction.transaction_at)
            /\ (~AutoApplyEnabled /\ RelevantAndInGeo(rewards[i])
                    /\ ActiveAt(rewards[i], transaction.transaction_at))
                  => InRet(rewards[i])

\* a reward is returned for a transaction dated on its start_date and its end_date
C4_Witness ==
    /\ op = "find_matching_rewards"
    /\ \E k \in DOMAIN ret :
          /\ ret[k].start_date = transaction.transaction_at[1]
          /\ ret[k].end_date = transaction.transaction_at
    /\ \E i \in DOMAIN rewards : RelevantAndInGeo(rewards[i]) /\ ~InRet(rewards[i])

CaseInsensitiveSubstring(part, whole) ==
    part # None /\ whole # None /\ StrIn(StrLower(part[1]), StrLower(whole[1]))

\* C5: every returned reward has the transaction's merchant_normalized as a
\* case-insensitive substring of its merchant_name, or the transaction's
\* category as its category; with neither a merchant nor a category the result
\* is empty.
C5_Relevance ==
    Matched =>
        /\ \A k \in DOMAIN ret :
              \/ /\ TruthyStr(transaction.merchant_normalized)
                 /\ CaseInsensitiveSubstring(transaction.merchant_normalized,
                                             Some(ret[k].merchant_name))
              \/ /\ TruthyStr(transaction.category)
                 /\ ret[k].category = transaction.category
        /\ (~TruthyStr(transaction.merchant_normalized) /\ ~TruthyStr(transaction.category))
              => ret = <<>>

\* C6: with a known user geo, an active and relevant reward passes the geo
\* filter iff it is global or the user geo is a case-insensitive substring of its
\* geo_city or geo_country.
C6_GeoFilter ==
    (Matched /\ ~UserGeoAbsent /\ ~AutoApplyEnabled) =>
        \A i \in DOMAIN rewards :
            (/\ ActiveAt(rewards[i], transaction.transaction_at)
             /\ MerchantMatch(rewards[i], transaction) \/ CategoryMatch(rewards[i], transaction))
            => (InRet(rewards[i]) <=>
                  \/ rewards[i].geo_scope = "global"
                  \/ CaseInsensitiveSubstring(MatchingUserGeo(user, user_preferences),
                                              rewards[i].geo_city)
                  \/ CaseInsensitiveSubstring(MatchingUserGeo(user, user_preferences),
                                              rewards[i].geo_country))

----------------------------------------------------------------------------
(* Properties of enrichment (SpecEnrich) *)

\* the lower-cased text normalize_merchant and infer_location search
TextOf(t) == StrLower(t.description \o " " \o (IF t.memo = None THEN "" ELSE t.memo[1]))

KeyOccurs(i) == StrIn(MERCHANT_PATTERNS[i][1], TextOf(transaction))

\* C7: when the text holds at least one key of MERCHANT_PATTERNS, in any letter
\* case, normalize_merchant returns the canonical name of the first key, in
\* declaration order, that occurs in the text.
C7_FirstMerchantPatternWins ==
    op = "normalize_merchant" =>
        \A i \in DOMAIN MERCHANT_PATTERNS :
            (KeyOccurs(i) /\ \A j \in 1..(i - 1) : ~KeyOccurs(j))
                => ret = Some(MERCHANT_PATTERNS[i][2])

\* two keys with different canonical names occur, and the earlier one is returned
C7_Witness ==
    /\ op = "normalize_merchant"
    /\ \E i, j \in DOMAIN MERCHANT_PATTERNS :
          /\ i < j
          /\ KeyOccurs(i)
          /\ KeyOccurs(j)
          /\ MERCHANT_PATTERNS[i][2] # MERCHANT_PATTERNS[j][2]
          /\ ret = Some(MERCHANT_PATTERNS[i][2])
    /\ TextOf(transaction) # transaction.description \o " " \o OrEmpty(transaction.memo)

\* the lower-cased text infer_category searches
CategoryTextOf(t) ==
    TextOf(t) \o " " \o StrLower(IF TruthyStr(t.merchant_normalized)
                                 THEN t.merchant_normalized[1] ELSE "")

CategoryOccurs(i) ==
    \E j \in DOMAIN CATEGORY_PATTERNS[i][2] :
        StrIn(CATEGORY_PATTERNS[i][2][j], CategoryTextOf(transaction))

\* C8: infer_category returns the first category, in CATEGORY_PATTERNS order,
\* one of whose keywords occurs in description + memo + merchant, and None when
\* no keyword occurs; "STARBUCKS STORE #12345" / "Purchase at Starbucks Coffee"
\* enriches to merchant "Starbucks" and category "dining".
C8_FirstCategoryWins ==
    /\ op = "infer_category" =>
          /\ \A i \in DOMAIN CATEGORY_PATTERNS :
                (CategoryOccurs(i) /\ \A k \in 1..(i - 1) : ~CategoryOccurs(k))
                    => ret = Some(CATEGORY_PATTERNS[i][1])
          /\ (\A i \in DOMAIN CATEGORY_PATTERNS : ~CategoryOccurs(i)) => ret = None
    /\ ( /\ op = "enrich_transaction"
         /\ entry.description = "STARBUCKS STORE #12345"
         /\ entry.memo = Some("Purchase at Starbucks Coffee")
         /\ entry.merchant_normalized = None
         /\ entry.category = None )
       => /\ transaction.merchant_normalized = Some("Starbucks")
          /\ transaction.category = Some("dining")

\* keywords of two categories occur, and the earlier category is returned
C8_Witness ==
    /\ op = "infer_category"
    /\ ret = Some("dining")
    /\ transaction.description = "WHOLE"
    /\ \E i \in DOMAIN CATEGORY_PATTERNS :
          CATEGORY_PATTERNS[i][1] = "groceries" /\ CategoryOccurs(i)

NoKeyOccurs == \A i \in DOMAIN MERCHANT_PATTERNS : ~KeyOccurs(i)

NoCategoryOccurs == \A i \in DOMAIN CATEGORY_PATTERNS : ~CategoryOccurs(i)

NoCityOccurs == \A i \in DOMAIN cities : ~StrIn(cities[i], TextOf(transaction))

\* the text holds nothing but whitespace
Blank(s) == \A i \in 1..Len(s) : CharAt(s, i) = " "

\* C9 as stated: each of normalize_merchant, infer_category and infer_location
\* returns None for a text in which none of its patterns occurs.
C9_UnmatchedYieldsNone ==
    /\ (op = "normalize_merchant" /\ NoKeyOccurs) => ret = None
    /\ (op = "infer_category" /\ NoCategoryOccurs) => ret = None
    /\ (op = "infer_location" /\ NoCityOccurs) => ret = None

\* C9, amended: infer_category and infer_location return None for a text in
\* which none of their patterns occurs; normalize_merchant returns None for
\* such a text only when it is blank, and its first word, capitalized, when it
\* is not.
C9_UnmatchedYieldsNoneOrFirstWord ==
    /\ (op = "normalize_merchant" /\ NoKeyOccurs) =>
          /\ ret = None <=> Blank(TextOf(transaction))
          /\ ret = FirstWord(StrSplit(TextOf(transaction)))
    /\ (op = "infer_category" /\ NoCategoryOccurs) => ret = None
    /\ (op = "infer_location" /\ NoCityOccurs) => ret = None

\* an unmatched text that is not blank gives its first word
C9_Witness ==
    /\ op = "normalize_merchant"
    /\ NoKeyOccurs
    /\ transaction.description = "PAYROLL DEPOSIT"
    /\ ret = Some("Payroll")

\* C10: once enrich_transaction has run on a transaction, running it again
\* changes no field.
C10_EnrichIdempotent ==
    enrich_calls >= 1 => enrich_transaction(transaction) = transaction

\* the first pass filled a field and a second pass has run
C10_Witness ==
    /\ op = "enrich_transaction"
    /\ enrich_calls = 2
    /\ entry.merchant_normalized = None
    /\ transaction.merchant_normalized = Some("Starbucks")
    /\ entry.category = None
    /\ transaction.category = Some("dining")

----------------------------------------------------------------------------
(* Frame of enrichment (Spec) *)

DerivedFields == {"merchant_normalized", "category", "location_inferred"}

IdentityFields ==
    {"customer_id", "account_id", "posted_at", "transaction_at", "value_amount_usd",
     "description", "memo"}

Enriched == op \in {"enrich_transaction", "find_matching_rewards"}

\* C11: enrich_transaction, and find_matching_rewards which calls it, leave
\* every derived field that is populated on entry (whatever value it holds) as
\* it was, and leave every identity field of the transaction as it was.
C11_WriteOnce ==
    Enriched =>
        /\ \A f \in DerivedFields : entry[f] # None => transaction[f] = entry[f]
        /\ \A f \in IdentityFields : transaction[f] = entry[f]

\* the part of C11 that the code keeps: non-empty derived fields and identity fields
C11_NonEmptyKept ==
    Enriched =>
        /\ \A f \in DerivedFields : TruthyStr(entry[f]) => transaction[f] = entry[f]
        /\ \A f \in IdentityFields : transaction[f] = entry[f]

----------------------------------------------------------------------------
(* More properties of the savings calculator (SpecSavings) *)

Calculated == op = "calculate_reward_savings"

\* |a| * p / 100, in 1/Scale cents
PercentageOf(a, p) == Abs(a) * p

\* what C12 says of a percentage_cashback reward r with percentage_value set,
\* where capped tells whether r's cap applies
PercentageFormula(r, capped) ==
    /\ ret.savings = IF capped
                     THEN Min(PercentageOf(transaction.value_amount_usd, r.percentage_value[1]),
                              r.max_savings_amount[1] * Scale)
                     ELSE PercentageOf(transaction.value_amount_usd, r.percentage_value[1])
    /\ ret.savings = calculate_reward_savings(
                         [transaction EXCEPT !.value_amount_usd = -transaction.value_amount_usd], r)
    /\ ( /\ r.percentage_value = Some(500)
         /\ r.max_savings_amount = Some(5000)
         /\ transaction.value_amount_usd = -200000 ) => ret.savings = 5000 * Scale

\* C12: for a percentage_cashback reward with percentage_value p and a signed
\* amount a, the savings are |a| * p / 100 without a cap and
\* min(|a| * p / 100, max_savings_amount) with a cap set, the same for a and -a;
\* p = 5, cap = 50.00 and a = -2000.00 give 50.00.
C12_PercentageFormula ==
    ( /\ Calculated
      /\ ret.reward.reward_type = "percentage_cashback"
      /\ ret.reward.percentage_value # None )
    => PercentageFormula(ret.reward, ret.reward.max_savings_amount # None)

\* the formula of C12 with the cap applied as the code applies it: when it is not 0
C12_FormulaWithNonZeroCap ==
    ( /\ Calculated
      /\ ret.reward.reward_type = "percentage_cashback"
      /\ ret.reward.percentage_value # None )
    => PercentageFormula(ret.reward, TruthyNum(ret.reward.max_savings_amount))

\* the reward lacks the numeric field its reward_type requires
MissingRequiredField(r) ==
    \/ r.reward_type = "percentage_cashback" /\ r.percentage_value = None
    \/ r.reward_type = "fixed_amount" /\ r.fixed_amount_value = None

\* a valid fixed_amount reward of $0
ZeroFixedAmount(r) == [r EXCEPT !.reward_type = "fixed_amount", !.fixed_amount_value = Some(0)]

\* C13: for a reward that lacks its type-required numeric field,
\* calculate_reward_savings gives an outcome that differs from the legitimate
\* zero savings it gives for a $0 fixed_amount reward.
C13_IndeterminateIsNotZero ==
    (Calculated /\ MissingRequiredField(ret.reward)) =>
        ret.savings # calculate_reward_savings(transaction, ZeroFixedAmount(ret.reward))

----------------------------------------------------------------------------
(* Properties of the batch flow (Spec) *)

\* a savings value, in 1/Scale cents, that is a whole number of cents
WholeCents(savings) == savings % Scale = 0

\* C14: every reward_savings_amount stored on a transaction is an exact number
\* of cents (at most 2 decimal places).
C14_StoredSavingsInCents ==
    transaction.reward_savings_amount # None => WholeCents(transaction.reward_savings_amount[1])

\* the batch flow ran calculate_reward_savings: it does so exactly when it
\* stores a reward_savings_amount, and on the reward it stores as matched
SavingsCalculated ==
    op = "create_sample_transactions" /\ transaction.reward_savings_amount # None

\* the reward the transaction is matched to
MatchedReward ==
    CHOOSE r \in {rewards[i] : i \in DOMAIN rewards} : transaction.matched_reward_id = Some(r.id)

\* the fixed_amount_value of an experience reward is not what is stored as savings
ExperienceValueNotStored ==
    (SavingsCalculated /\ MatchedReward.reward_type = "experience")
        => /\ MatchedReward.fixed_amount_value # None
           /\ transaction.reward_savings_amount # Some(MatchedReward.fixed_amount_value[1] * Scale)

\* C15: the savings calculator is never invoked for a reward of type
\* experience, and the fixed_amount_value of an experience reward never becomes
\* the reward_savings_amount of a transaction.
C15_NoSavingsForExperience ==
    /\ SavingsCalculated => MatchedReward.reward_type # "experience"
    /\ ExperienceValueNotStored

----------------------------------------------------------------------------
(* Properties of the notification decision (SpecNotify) *)

Notified == op = "should_send_notification"

\* the key is in the preferences map with the value False
ToggleOff(key) == key \in DOMAIN user_preferences /\ user_preferences[key] = Some(FALSE)

\* the key is in the preferences map with the value True, or is not in it
ToggleOn(key) == DictGet(user_preferences, key, Some(TRUE)) = Some(TRUE)

ToggleKeys == {"notifications_enabled", "priceless_notifications_enabled"}

\* the preferences map with the key set to True
WithToggleOn(key) == [k \in DOMAIN user_preferences \cup {key} |->
                         IF k = key THEN Some(TRUE) ELSE user_preferences[k]]

\* C16: should_send_notification returns false whenever notifications_enabled
\* or priceless_notifications_enabled is false, for every reward, user geo and
\* time; a key that is missing from the preferences map counts as enabled (the
\* decision is the one made with the key set to true).
C16_TogglesRespected ==
    Notified =>
        /\ (\E key \in ToggleKeys : ToggleOff(key)) => ret.sent = Return(FALSE)
        /\ \A key \in ToggleKeys :
              key \notin DOMAIN user_preferences =>
                  ret.sent = should_send_notification(user, WithToggleOn(key),
                                                      ret.experience, ret.now)

\* the global toggle alone is off (the priceless key is missing), for a global
\* experience inside its window, and the answer is false
C16_Witness ==
    /\ Notified
    /\ ToggleOff("notifications_enabled")
    /\ "priceless_notifications_enabled" \notin DOMAIN user_preferences
    /\ ret.experience.geo_scope = "global"
    /\ ret.experience.start_date <= ret.now
    /\ ret.experience.end_date = None
    /\ ret.sent = Return(FALSE)

ResolvedUserGeo == NotifyUserGeo(user, user_preferences)

\* the user geo is present and a case-insensitive substring of the reward's geo_city
InGeoCity(experience) ==
    /\ TruthyStr(ResolvedUserGeo)
    /\ CaseInsensitiveSubstring(ResolvedUserGeo, experience.geo_city)

\* C17: for a reward whose geo_scope is not global, should_send_notification
\* returns false if the resolved user geo is absent or is not a
\* case-insensitive substring of reward.geo_city (a country-scoped reward with
\* no geo_city included).
C17_ScopedNeedsCityMatch ==
    (Notified /\ ret.experience.geo_scope # "global" /\ ~InGeoCity(ret.experience))
        => ret.sent = Return(FALSE)

\* the part of C17 that the code keeps: rewards that have a geo_city
C17_ScopedWithCity ==
    ( /\ Notified
      /\ ret.experience.geo_scope # "global"
      /\ TruthyStr(ret.experience.geo_city)
      /\ ~InGeoCity(ret.experience) )
        => ret.sent = Return(FALSE)

TogglesAndGeoPass ==
    /\ Notified
    /\ \A key \in ToggleKeys : ToggleOn(key)
    /\ ret.experience.geo_scope = "global" \/ InGeoCity(ret.experience)

\* start_date <= now and (end_date is absent or now <= end_date)
InWindow(experience, now) ==
    /\ experience.start_date <= now
    /\ experience.end_date = None \/ now <= experience.end_date[1]

\* C18 as stated: with both toggles enabled and the geo condition passing,
\* should_send_notification returns true iff start_date <= now and (end_date is
\* absent or now <= end_date), and false otherwise.
C18_ValidityWindow ==
    TogglesAndGeoPass =>
        ret.sent = Return(InWindow(ret.experience, ret.now))

\* C18, amended: the same for a reward that has no end_date or whose end_date
\* has the timezone awareness of its start_date.
C18_ValidityWindowComparable ==
    ( /\ TogglesAndGeoPass
      /\ ret.experience.end_date = None \/ EndComparable(ret.experience) )
    => ret.sent = Return(InWindow(ret.experience, ret.now))

\* true on the start date and on the end date, false the day before and the day after
C18_Witness ==
    /\ TogglesAndGeoPass
    /\ ret.experience.geo_scope = "city"
    /\ ret.experience.end_date # None
    /\ EndComparable(ret.experience)
    /\ ret.experience.start_date < ret.experience.end_date[1]
    /\ ret.now = ret.experience.end_date[1]
    /\ ret.sent = Return(TRUE)
    /\ should_send_notification(user, user_preferences, ret.experience,
                                ret.experience.start_date) = Return(TRUE)
    /\ should_send_notification(user, user_preferences, ret.experience,
                                ret.experience.start_date - 1) = Return(FALSE)
    /\ should_send_notification(user, user_preferences, ret.experience,
                                ret.experience.end_date[1] + 1) = Return(FALSE)

\* start_date and end_date differ in timezone awareness
MixedAwareness(experience) ==
    experience.end_date # None /\ experience.end_date_aware # experience.start_date_aware

\* C19: a reward whose start_date and end_date differ in timezone awareness
\* (so that now, whatever its awareness, mismatches one of them) is rejected
\* with a typed error and never answered with a boolean.
C19_MixedAwarenessRaises ==
    (Notified /\ MixedAwareness(ret.experience)) => ret.sent = Raise("TypeError")

\* where the code does raise: exactly when the comparison with end_date is reached
C19_RaisesWhenCompared ==
    Notified =>
        ( ret.sent = Raise("TypeError") <=>
            /\ MixedAwareness(ret.experience)
            /\ NotificationsAllowed(user_preferences)
            /\ NotifyGeoMatch(ret.experience, ResolvedUserGeo)
            /\ ret.experience.start_date <= ret.now )

----------------------------------------------------------------------------
(* Unmatched transactions in the batch flow (Spec) *)

\* C20: a transaction for which matching returns no candidate leaves the batch
\* flow with matched_reward_id = none, reward_applied = false,
\* notification_triggered = false and no reward_savings_amount; in every state
\* reward_applied = true implies that matched_reward_id is set.
C20_NoMatchLeavesDefaults ==
    /\ (op = "create_sample_transactions" /\ ret = <<>>) =>
          /\ transaction.matched_reward_id = None
          /\ transaction.reward_applied = FALSE
          /\ transaction.notification_triggered = FALSE
          /\ transaction.reward_savings_amount = None
    /\ transaction.reward_applied = TRUE => transaction.matched_reward_id # None

\* the query ran for an enriched transaction, inside the rewards' window, with
\* auto-apply enabled, and found no candidate
C20_Witness ==
    /\ op = "create_sample_transactions"
    /\ ret = <<>>
    /\ transaction.merchant_normalized = Some("Xyz")
    /\ transaction.transaction_at = Some(2)
    /\ AutoApplyEnabled
    /\ transaction.reward_applied = FALSE

----------------------------------------------------------------------------
(* The opt-in path of the batch flow (Spec) *)

\* auto-apply is disabled, or no candidate is auto-applicable without opt-in
OptInPath == ~(AutoApplyEnabled /\ AutoCandidates # <<>>)

\* reward_applied and notification_triggered are set together on the opt-in path
C21_FlagsSetTogether ==
    (op = "create_sample_transactions" /\ OptInPath)
        => transaction.notification_triggered = transaction.reward_applied

\* C21: on the opt-in path a transaction has a matched_reward_id only if a
\* notification for it was accepted, and reward_applied and
\* notification_triggered are set together: matched_reward_id set implies
\* notification_triggered = true, and notification_triggered = reward_applied.
C21_OptInMatchNeedsNotification ==
    (op = "create_sample_transactions" /\ OptInPath) =>
        /\ transaction.matched_reward_id # None => transaction.notification_triggered = TRUE
        /\ transaction.notification_triggered = transaction.reward_applied

----------------------------------------------------------------------------
(* Properties of a batch run (SpecBatch) *)

WellFormed(item) == item.amount # None /\ item.at # None

BatchOver == status \in {"done", "raised"}

\* the transactions table holds the transaction created from template k
Stored(k) ==
    \E j \in DOMAIN committed :
        /\ committed[j].description = batch[k].description
        /\ committed[j].memo = batch[k].memo
        /\ committed[j].transaction_at = batch[k].at

C22_AllOrNothing ==
    BatchOver =>
        \/ status = "done" /\ Len(committed) = Len(batch)
        \/ status = "raised" /\ committed = <<>> /\ session = <<>>
\* the transactions processed so far, in batch order
Processed == committed \o session

\* template k processed on its own, as the first transaction of a run
ProcessedAlone(k) ==
    find_matching_rewards(enrich_transaction(Construct(batch[k])), user, user_preferences, rewards)

\* (merchant, category, location, selected reward, savings) of a transaction
DerivedOf(t) ==
    <<t.merchant_normalized, t.category, t.location_inferred, t.matched_reward_id,
      t.reward_savings_amount>>

\* the derived fields of every processed transaction, and the candidate list of
\* the last one, are those of the transaction processed on its own
SameAsAlone ==
    /\ \A k \in DOMAIN Processed :
          DerivedOf(Processed[k]) =
              DerivedOf(ApplyMatch(ProcessedAlone(k).transaction, ProcessedAlone(k).rewards,
                                   user_preferences, FALSE))
    /\ (op = "create_sample_transactions" /\ status = "running")
          => ret = ProcessedAlone(pc - 1).rewards

----------------------------------------------------------------------------
(* The list that matching returns (Spec) *)

\* the reward passes the temporal, relevance and geo filters
Passes(r) == ActiveAt(r, transaction.transaction_at) /\ RelevantAndInGeo(r)

\* the place of a row in the rewards table
PositionOf(r) == CHOOSE i \in DOMAIN rewards : rewards[i] = r

AutoApplySelects ==
    AutoApplyEnabled /\ \E i \in DOMAIN rewards : Passes(rewards[i]) /\ IsAutoNoOptIn(rewards[i])

----------------------------------------------------------------------------
(* Properties of the user geo and of the recommendations (SpecRecommend) *)

GeoResolved == op = "resolve_user_geo"

\* the preference when it is present and non-empty, otherwise the user's
\* primary_geo_location when that is present and non-empty, otherwise absent
ClaimedUserGeo ==
    IF user_preferences # None /\ TruthyStr(user_preferences[1].priceless_geo_location)
    THEN user_preferences[1].priceless_geo_location
    ELSE IF TruthyStr(user.primary_geo_location) THEN user.primary_geo_location
    ELSE None

\* an empty geo counts as an absent one
NoneIfEmpty(geo) == IF TruthyStr(geo) THEN geo ELSE None

\* C25 as stated: matching, the notification decision and the recommendation
\* filter resolve the same user geo for every combination of present, empty and
\* absent priceless_geo_location and primary_geo_location.
C25_SameUserGeo ==
    GeoResolved =>
        /\ ret.matching = ClaimedUserGeo
        /\ ret.notification = ClaimedUserGeo
        /\ ret.recommendation = ClaimedUserGeo

\* C25, amended: the three sites resolve the same user geo when an empty
\* result is counted as an absent one.
C25_SameUserGeoUpToEmpty ==
    GeoResolved =>
        /\ NoneIfEmpty(ret.matching) = ClaimedUserGeo
        /\ NoneIfEmpty(ret.notification) = ClaimedUserGeo
        /\ NoneIfEmpty(ret.recommendation) = ClaimedUserGeo

\* the preference is empty and the three sites fall back to the primary geo
C25_Witness ==
    /\ GeoResolved
    /\ user_preferences # None
    /\ user_preferences[1].priceless_geo_location = Some("")
    /\ user.primary_geo_location = Some("USA")
    /\ ret.matching = Some("USA")
    /\ ret.notification = Some("USA")
    /\ ret.recommendation = Some("USA")

Recommended == op = "generate_reward_recommendations"

\* C27: the two lists do not depend on what the completion call does: for
\* every outcome of it the same lists are returned, each of at most 5 rewards,
\* every recommended_auto_apply reward auto-applicable without opt-in and every
\* recommended_priceless reward an experience that is global or has the user
\* geo in its geo_city.
C27_IndependentOfCompletion ==
    Recommended =>
        /\ \A ai \in AiOutcomes :
              ret.recommendations =
                  generate_reward_recommendations(user, committed, rewards,
                                                  PreferencesDict(user_preferences), ai)
        /\ Len(ret.recommendations.recommended_auto_apply) <= 5
        /\ Len(ret.recommendations.recommended_priceless) <= 5
        /\ \A k \in DOMAIN ret.recommendations.recommended_auto_apply :
              IsAutoNoOptIn(ret.recommendations.recommended_auto_apply[k])
        /\ \A k \in DOMAIN ret.recommendations.recommended_priceless :
              /\ ret.recommendations.recommended_priceless[k].reward_type = "experience"
              /\ \/ ret.recommendations.recommended_priceless[k].geo_scope = "global"
                 \/ /\ ClaimedUserGeo # None
                    /\ CaseInsensitiveSubstring(
                           ClaimedUserGeo, ret.recommendations.recommended_priceless[k].geo_city)

\* the completion named other rewards than the ones returned; the auto-apply
\* list was cut to 5 and the priceless list holds a city experience
C27_Witness ==
    /\ Recommended
    /\ ret.ai = AiOutcome("ok", <<54, 999>>, <<1, 2>>)
    /\ Len(ret.recommendations.recommended_auto_apply) = 5
    /\ Len(RecommendedAutoApply(committed, rewards)) > 5
    /\ \E k \in DOMAIN ret.recommendations.recommended_priceless :
          ret.recommendations.recommended_priceless[k].geo_scope = "city"

----------------------------------------------------------------------------
(* The dashboard against SavingsCalculationService (SpecDashboard) *)

Summarised == op = "get_dashboard_summary"

\* the two sums of the dashboard are those of calculate_savings
SameSums ==
    Summarised =>
        /\ ret.summary.saved_via_auto_apply =
               calculate_savings(user.id, committed, ret.now).saved_via_auto_apply
        /\ ret.summary.saved_via_notifications =
               calculate_savings(user.id, committed, ret.now).saved_via_notifications

\* no transaction counts towards both sums, in either implementation
NoDoubleCounting ==
    op \in {"get_dashboard_summary", "calculate_savings"} =>
        \A k \in DOMAIN committed :
            /\ ~(DashboardAutoApplied(committed[k]) /\ DashboardNotified(committed[k]))
            /\ ~( /\ ServiceAutoApplied(committed[k], user.id, CutoffDate(ret.now))
                  /\ ServiceNotified(committed[k], user.id, CutoffDate(ret.now)) )

\* for every category the dashboard reports, the service reports the same total
SameCategoryTotals ==
    Summarised =>
        \A cat \in DOMAIN ret.summary.rewards_by_category :
            /\ cat \in DOMAIN get_rewards_by_category(user.id, committed, ret.now)
            /\ ret.summary.rewards_by_category[cat].total_savings =
                   get_rewards_by_category(user.id, committed, ret.now)[cat].total_savings

\* C26: for the same transactions of a user in the 30-day window, the dashboard
\* endpoint and SavingsCalculationService give the same saved_via_auto_apply,
\* the same saved_via_notifications and, for every category, the same
\* total_savings and count (transactions with a reward_savings_amount of 0
\* included), and no transaction counts towards both sums.
C26_SameAggregates ==
    /\ SameSums
    /\ Summarised =>
          ret.summary.rewards_by_category = get_rewards_by_category(user.id, committed, ret.now)
    /\ NoDoubleCounting

====
